---- MODULE Spec2Model ----
(***************************************************************************)
(* A model of wolfram-expr: the validated identifier types of              *)
(* src/src/symbol.rs and the reference-counted expression handle of        *)
(* src/src/lib.rs.                                                         *)
(*                                                                         *)
(* Text is a sequence of one-character strings.  The character classes of  *)
(* the identifier grammar each have one or two representatives.            *)
(***************************************************************************)
EXTENDS Integers, Sequences, FiniteSets, TLC

VARIABLES
    input,      \* SpecSym: the text handed to the constructors
    symV,       \* SpecSym: Option<Symbol>, the owned symbol last constructed
    nameV,      \* SpecSym: Option<SymbolName>
    relV,       \* SpecSym: Option<RelativeContext>
    ctxs,       \* SpecSym: two Option<Context> bindings
    ret,        \* SpecSym: the last call: operation, arguments, outcome
    split,      \* SpecSym: the borrowed views context() / symbol_name() returned
    expr,       \* SpecDisplay: the expression built
    shown,      \* SpecDisplay: Option<String>, what to_string() returned
    tagged,     \* SpecDisplay: Option<Option<Symbol>>, what tag() returned
    heap,       \* Spec, SpecConc: the ArcInner<ExprKind> allocations, by address
    h,          \* Spec, SpecConc: the Expr bindings; 0 is a binding that holds none
    taken,      \* Spec: Option<ExprKind>, an ExprKind the caller owns
    last,       \* Spec: the operation just made, with what it cloned and allocated
    cells,      \* SpecConc: the ArcInner allocations: live, strong count, data
    mine,       \* SpecConc: the Expr each thread owns; 0 when it owns none
    pc,         \* SpecConc: where each thread is within clone, drop or kind_mut
    lcl,        \* SpecConc: each thread's locals within an operation
    expect,     \* SpecConc: what each thread last wrote to, or was handed with, its Expr
    obs,        \* SpecConc: what each thread last read, and what it expected
    given,      \* SpecOwn: the text handed to the constructors
    own         \* SpecOwn: the owned identifier value held: type, text, maker

symVars == <<input, symV, nameV, relV, ctxs, ret, split>>

dispVars == <<expr, shown, tagged>>

heapVars == <<heap, h, taken, last>>

concVars == <<cells, mine, pc, lcl, expect, obs>>

ownVars == <<given, own>>

vars == <<symVars, dispVars, heapVars, concVars, ownVars>>

\* What the steps of one specification leave alone.
HeapOnly == UNCHANGED <<symVars, dispVars, concVars, ownVars>>

SymOnly == UNCHANGED <<dispVars, heapVars, concVars, ownVars>>

DisplayOnly == UNCHANGED <<symVars, heapVars, concVars, ownVars>>

ConcOnly == UNCHANGED <<symVars, dispVars, heapVars, ownVars>>

OwnOnly == UNCHANGED <<symVars, dispVars, heapVars, concVars>>

\* ------------------------------------------------------------------ bounds

\* Longest input text handed to a constructor.
MaxLen == 5

\* Longest name handed to Context::join.
MaxNameLen == 2

\* Allocations that may be live at once.
MaxAddr == 2

\* Expr bindings of the program.
MaxHandles == 2

\* Threads, each owning one Expr.
MaxThreads == 2

\* Allocations that may be live at once among the threads.
MaxArcs == 3

\* Most nodes of an expression tree handed to Display: an atom is one node,
\* a Normal one more than its head and its elements together.
MaxNodes == 4

\* ----------------------------------------------------------------- options

None == <<>>

Some(v) == <<v>>

\* The outcome of a call that may panic: the value, or a fatal failure.
Ok(v) == [panic |-> FALSE, val |-> v]

Panic == [panic |-> TRUE, val |-> None]

\* ------------------------------------------------------------------- text

\* The context mark U+0060.  A TLA+ string cannot hold that character: the
\* apostrophe stands for it throughout.
Grave == "'"

Letters == {"a"}

\* The other letters of the texts the program itself writes: Global, System,
\* Null, List.
LiteralLetters == {"G", "l", "o", "b", "S", "y", "s", "t", "e", "m", "N", "u",
                   "L", "i"}

IsLetter(c) == c \in Letters \/ c \in LiteralLetters

Digits == {"1"}

Dollar == "$"

\* A character outside the identifier grammar.
Others == {"-"}

Alphabet == Letters \cup Digits \cup {Dollar, Grave} \cup Others

Texts == UNION {[1..n -> Alphabet] : n \in 0..MaxLen}

\* str::rfind(grave): the index of the last grave, 0 for Option::None.
RECURSIVE rfind(_, _)
rfind(s, i) ==
    IF i = 0 THEN 0
    ELSE IF s[i] = Grave THEN i
    ELSE rfind(s, i - 1)

\* str::find(grave): the index of the first grave, 0 for Option::None.
RECURSIVE find(_, _)
find(s, i) ==
    IF i > Len(s) THEN 0
    ELSE IF s[i] = Grave THEN i
    ELSE find(s, i + 1)

\* str::split_at(mid): the two halves <<s[..mid], s[mid..]>>.
split_at(s, mid) == <<SubSeq(s, 1, mid), SubSeq(s, mid + 1, Len(s))>>

\* str::split(grave): every segment between graves, the empty ones included.
RECURSIVE str_split(_, _, _)
str_split(s, i, cur) ==
    IF i > Len(s) THEN <<cur>>
    ELSE IF s[i] = Grave THEN <<cur>> \o str_split(s, i + 1, <<>>)
    ELSE str_split(s, i + 1, Append(cur, s[i]))

filter_last(segs) == SubSeq(segs, 1, Len(segs) - 1)

\* Iterator::filter(|comp| !comp.is_empty()).
RECURSIVE filter_nonempty(_)
filter_nonempty(segs) ==
    IF segs = <<>> THEN <<>>
    ELSE IF Head(segs) = <<>> THEN filter_nonempty(Tail(segs))
    ELSE <<Head(segs)>> \o filter_nonempty(Tail(segs))

\* ------------------------------------------- the parsers of symbol::parse

NameStart(c) == IsLetter(c) \/ c = Dollar

NameChar(c) == IsLetter(c) \/ c \in Digits \/ c = Dollar

\* The index after the longest run of name characters from i on.
RECURSIVE ScanRest(_, _)
ScanRest(s, i) ==
    IF i <= Len(s) /\ NameChar(s[i]) THEN ScanRest(s, i + 1) ELSE i

\* The index after the name that starts at i; 0 when none starts there.
ScanName(s, i) ==
    IF i <= Len(s) /\ NameStart(s[i]) THEN ScanRest(s, i + 1) ELSE 0

\* Components each closed by one grave, from i to the end of the text.
RECURSIVE ScanContext(_, _)
ScanContext(s, i) ==
    LET j == ScanName(s, i) IN
    IF j = 0 \/ j > Len(s) THEN FALSE
    ELSE IF s[j] # Grave THEN FALSE
    ELSE IF j = Len(s) THEN TRUE
    ELSE ScanContext(s, j + 1)

\* Components each closed by one grave, then a final name; seen: a component
\* has been read.
RECURSIVE ScanSymbol(_, _, _)
ScanSymbol(s, i, seen) ==
    LET j == ScanName(s, i) IN
    IF j = 0 THEN FALSE
    ELSE IF j = Len(s) + 1 THEN seen
    ELSE IF s[j] # Grave THEN FALSE
    ELSE ScanSymbol(s, j + 1, TRUE)

SymbolNameRef_try_new(string) ==
    IF ScanName(string, 1) = Len(string) + 1 THEN Some(string) ELSE None

ContextRef_try_new(string) ==
    IF ScanContext(string, 1) THEN Some(string) ELSE None

SymbolRef_try_new(string) ==
    IF ScanSymbol(string, 1, FALSE) THEN Some(string) ELSE None

RelativeContext_try_new(string) ==
    IF Len(string) >= 1 /\ string[1] = Grave /\ ScanContext(string, 2)
    THEN Some(string) ELSE None

\* ------------------------------------------------- symbol.rs: owned types

\* unchecked_new: wraps the text without looking at it.
unchecked_new(string) == string

to_symbol(sym_ref) == unchecked_new(sym_ref)

to_symbol_name(name_ref) == unchecked_new(name_ref)

to_context(context_ref) == unchecked_new(context_ref)

Symbol_try_new_NoCheck(string) == Some(to_symbol(string))

Symbol_try_new(string) ==
    LET sym_ref == SymbolRef_try_new(string) IN
    IF sym_ref = None THEN None ELSE Some(to_symbol(sym_ref[1]))

Symbol_new_Default(string) ==
    LET r == Symbol_try_new(string) IN
    IF r = None THEN Ok(<<>>) ELSE Ok(r[1])

Symbol_new(string) ==
    LET r == Symbol_try_new(string) IN
    IF r = None THEN Panic ELSE Ok(r[1])

SymbolName_try_new(string) ==
    LET name_ref == SymbolNameRef_try_new(string) IN
    IF name_ref = None THEN None ELSE Some(to_symbol_name(name_ref[1]))

Context_try_new_AsSymbol(string) ==
    LET context_ref == SymbolRef_try_new(string) IN
    IF context_ref = None THEN None ELSE Some(to_context(context_ref[1]))

Context_try_new(string) ==
    LET context_ref == ContextRef_try_new(string) IN
    IF context_ref = None THEN None ELSE Some(to_context(context_ref[1]))

Context_new(string) ==
    LET r == Context_try_new(string) IN
    IF r = None THEN Panic ELSE Ok(r[1])

Context_join_NoGrave(self, name) ==
    LET r == Context_try_new(self \o name) IN
    IF r = None THEN Panic ELSE Ok(r[1])

\* format!("{}{}" + grave, self.0, name.as_str()), then try_new(..).expect(..).
Context_join(self, name) ==
    LET r == Context_try_new(self \o name \o <<Grave>>) IN
    IF r = None THEN Panic ELSE Ok(r[1])

\* split(grave), filter the empty segments out, try_new(..).expect(..) on each.
Context_components(self) ==
    LET comps == filter_nonempty(str_split(self, 1, <<>>)) IN
    IF \E k \in 1..Len(comps) : SymbolNameRef_try_new(comps[k]) = None
    THEN Panic ELSE Ok(comps)

\* Context::global(): Self(String::from("Global" + grave).into()).
Context_global == <<"G", "l", "o", "b", "a", "l", Grave>>

\* Context::system()
Context_system == <<"S", "y", "s", "t", "e", "m", Grave>>

Context_from_symbol_name_Unchecked(name) == Ok(unchecked_new(name))

\* Context::from_symbol_name: try_new(format!("{}" + grave, name)).unwrap().
Context_from_symbol_name(name) ==
    LET r == Context_try_new(name \o <<Grave>>) IN
    IF r = None THEN Panic ELSE Ok(r[1])

\* The Symbol of Expr::null(): Symbol::unchecked_new("System" + grave + "Null").
Expr_null_symbol ==
    unchecked_new(<<"S", "y", "s", "t", "e", "m", Grave, "N", "u", "l", "l">>)

\* RelativeContext::components: the same steps on a relative context.
RelativeContext_components(self) ==
    LET comps == filter_nonempty(str_split(self, 1, <<>>)) IN
    IF \E k \in 1..Len(comps) : SymbolNameRef_try_new(comps[k]) = None
    THEN Panic ELSE Ok(comps)

\* --------------------------------------------- symbol.rs: borrowed views

SymbolRef_context_First(self) ==
    LET last_grave == find(self, 1) IN
    IF last_grave = 0 THEN Panic ELSE Ok(split_at(self, last_grave)[1])

SymbolRef_context_NoGrave(self) ==
    LET last_grave == rfind(self, Len(self)) IN
    IF last_grave = 0 THEN Panic ELSE Ok(split_at(self, last_grave - 1)[1])

\* rfind(grave).expect(..), split_at(last_grave + 1), the first half.  The
\* indices of the model are 1-based: Rust's byte offset last_grave + 1 is
\* the index of the grave itself.
SymbolRef_context(self) ==
    LET last_grave == rfind(self, Len(self)) IN
    IF last_grave = 0 THEN Panic ELSE Ok(split_at(self, last_grave)[1])

SymbolRef_symbol_name_First(self) ==
    LET last_grave == find(self, 1) IN
    IF last_grave = 0 THEN Panic ELSE Ok(split_at(self, last_grave)[2])

SymbolRef_symbol_name(self) ==
    LET last_grave == rfind(self, Len(self)) IN
    IF last_grave = 0 THEN Panic ELSE Ok(split_at(self, last_grave)[2])

\* --------------------------------------------------- lib.rs: expressions

\* An f64: finite values are multiples of one half, with the sign bit apart
\* (so that -0.0 is a value of its own), besides the infinities and NaN.
Float(class, neg, twice) == [class |-> class, neg |-> neg, twice |-> twice]

NaN == Float("nan", FALSE, 0)

\* f64 ==, which NotNan<f64> derives its PartialEq from: 0.0 == -0.0.
F64Eq(a, b) ==
    /\ a.class = b.class
    /\ a.twice = b.twice
    /\ a.neg = b.neg \/ (a.class = "fin" /\ a.twice = 0)

\* An expression tree (an ExprKind and all it owns).  Every variant is a
\* record of the same fields; head is <<>> but for a Normal, where it is
\* <<the head>>.
Node(tag, int, real, str, head, contents) ==
    [tag |-> tag, int |-> int, real |-> real, str |-> str,
     head |-> head, contents |-> contents]

ExprKind_Integer(int) == Node("Integer", int, Float("fin", FALSE, 0), <<>>, <<>>, <<>>)

ExprKind_Real(real) == Node("Real", 0, real, <<>>, <<>>, <<>>)

ExprKind_String(str) == Node("String", 0, Float("fin", FALSE, 0), str, <<>>, <<>>)

ExprKind_Symbol(sym) == Node("Symbol", 0, Float("fin", FALSE, 0), sym, <<>>, <<>>)

ExprKind_Normal(head, contents) ==
    Node("Normal", 0, Float("fin", FALSE, 0), <<>>, <<head>>, contents)

\* Number::real: NotNan::new(r), a panic on NaN.
Number_real(r) == IF r.class = "nan" THEN Panic ELSE Ok(r)

\* Expr::real(real) is Expr::number(Number::real(real)).
Expr_real(r) ==
    LET n == Number_real(r) IN
    IF n.panic THEN Panic ELSE Ok(ExprKind_Real(n.val))

\* #[derive(PartialEq)] on Expr, ExprKind and Normal: the variants first,
\* then the fields, through the Arc.
RECURSIVE ExprEq(_, _)
ExprEq(a, b) ==
    /\ a.tag = b.tag
    /\ CASE a.tag = "Integer" -> a.int = b.int
         [] a.tag = "Real" -> F64Eq(a.real, b.real)
         [] a.tag = "String" -> a.str = b.str
         [] a.tag = "Symbol" -> a.str = b.str
         [] a.tag = "Normal" ->
              /\ ExprEq(a.head[1], b.head[1])
              /\ Len(a.contents) = Len(b.contents)
              /\ \A k \in 1..Len(a.contents) : ExprEq(a.contents[k], b.contents[k])

tag_Shallow(e) ==
    CASE e.tag = "Symbol" -> Some(e.str)
      [] e.tag = "Normal" /\ e.head[1].tag = "Symbol" -> Some(e.head[1].str)
      [] OTHER -> None

\* Expr::tag: None for a number or a string, the tag of the head for a
\* Normal, the symbol for a Symbol.
RECURSIVE tag(_)
tag(e) ==
    CASE e.tag \in {"Integer", "Real", "String"} -> None
      [] e.tag = "Normal" -> tag(e.head[1])
      [] e.tag = "Symbol" -> Some(e.str)

\* ------------------------------------------------------ lib.rs: Display

DigitChar(d) == <<"0", "1", "2", "3", "4", "5", "6", "7", "8", "9">>[d + 1]

\* The decimal digits of n >= 0.
RECURSIVE fmt_u64(_)
fmt_u64(n) ==
    IF n < 10 THEN <<DigitChar(n)>>
    ELSE fmt_u64(n \div 10) \o <<DigitChar(n % 10)>>

\* Display for i64.
fmt_i64(n) == IF n < 0 THEN <<"-">> \o fmt_u64(0 - n) ELSE fmt_u64(n)

\* Debug for f64: the sign, then inf, or the shortest decimal that reads
\* back, with .0 after a whole number.
fmt_f64_debug(r) ==
    (IF r.neg THEN <<"-">> ELSE <<>>) \o
    (IF r.class = "inf" THEN <<"i", "n", "f">>
     ELSE fmt_u64(r.twice \div 2) \o <<".">> \o
          (IF r.twice % 2 = 1 THEN <<"5">> ELSE <<"0">>))

\* char::escape_debug as str's Debug applies it.
escape_debug(c) ==
    CASE c = "\"" -> <<"\\", "\"">>
      [] c = "\\" -> <<"\\", "\\">>
      [] c = "\n" -> <<"\\", "n">>
      [] OTHER -> <<c>>

RECURSIVE escape_all(_)
escape_all(str) ==
    IF str = <<>> THEN <<>>
    ELSE escape_debug(Head(str)) \o escape_all(Tail(str))

fmt_str_display(str) == str

\* Debug for str: write!(f, "{:?}", string).
fmt_str_debug(str) == <<"\"">> \o escape_all(str) \o <<"\"">>

RECURSIVE Display(_)
RECURSIVE DisplayElems_Trailing(_, _)
DisplayElems_Trailing(contents, idx) ==
    IF idx > Len(contents) THEN <<>>
    ELSE Display(contents[idx]) \o <<",", " ">> \o
         DisplayElems_Trailing(contents, idx + 1)

\* Display for Expr, ExprKind and Normal.
RECURSIVE DisplayElems(_, _)
DisplayElems(contents, idx) ==
    IF idx > Len(contents) THEN <<>>
    ELSE Display(contents[idx]) \o
         (IF idx # Len(contents) THEN <<",", " ">> ELSE <<>>) \o
         DisplayElems(contents, idx + 1)

Display(e) ==
    CASE e.tag = "Normal" ->
            Display(e.head[1]) \o <<"[">> \o DisplayElems(e.contents, 1) \o <<"]">>
      [] e.tag = "Integer" -> fmt_i64(e.int)
      [] e.tag = "Real" -> fmt_f64_debug(e.real)
      [] e.tag = "String" -> fmt_str_debug(e.str)
      [] e.tag = "Symbol" -> e.str

\* ------------------------------------- lib.rs: Expr as Arc<ExprKind>

Addr == 1..MaxAddr

Handle == 1..MaxHandles

\* The integers the heap's operations write.
IntVals == {0, 1}

\* An ExprKind as it lies in an allocation: the head and the elements of a
\* Normal are Exprs, that is addresses.
KInteger(n) == [tag |-> "Integer", int |-> n, head |-> 0, contents |-> <<>>]

KNormal(head, contents) ==
    [tag |-> "Normal", int |-> 0, head |-> head, contents |-> contents]

\* The Exprs an ExprKind owns.
Children(kind) ==
    IF kind.tag = "Normal" THEN <<kind.head>> \o kind.contents ELSE <<>>

Cell(strong, kind) == [live |-> TRUE, strong |-> strong, kind |-> kind]

FreeCell == [live |-> FALSE, strong |-> 0, kind |-> KInteger(0)]

HasFree(hp) == \E a \in Addr : ~hp[a].live

\* Arc::new: the allocator hands out the lowest free address.
Alloc(hp) == CHOOSE a \in Addr : ~hp[a].live /\ \A b \in 1..(a - 1) : hp[b].live

\* Arc::clone on each of addrs: one more strong reference.
RECURSIVE RetainAll(_, _)
RetainAll(hp, addrs) ==
    IF addrs = <<>> THEN hp
    ELSE RetainAll([hp EXCEPT ![Head(addrs)].strong = @ + 1], Tail(addrs))

ReleaseAll_Shallow(hp, addrs) ==
    [a \in Addr |->
        IF \E k \in 1..Len(addrs) : addrs[k] = a
        THEN IF hp[a].strong > 1
             THEN [hp[a] EXCEPT !.strong = @ - 1]
             ELSE FreeCell
        ELSE hp[a]]

\* Drop for Arc on each of addrs: one strong reference fewer, and with the
\* last one the ExprKind is dropped (its own Exprs with it) and the
\* allocation freed.
RECURSIVE ReleaseAll(_, _)
ReleaseAll(hp, addrs) ==
    IF addrs = <<>> THEN hp
    ELSE LET a == Head(addrs) IN
         IF hp[a].strong > 1
         THEN ReleaseAll([hp EXCEPT ![a].strong = @ - 1], Tail(addrs))
         ELSE ReleaseAll([hp EXCEPT ![a] = FreeCell],
                         Children(hp[a].kind) \o Tail(addrs))

\* Expr::ref_count: Arc::strong_count.
ref_count(hp, a) == hp[a].strong

\* Expr::kind, read to the leaves: the tree an Expr stands for.
RECURSIVE View(_, _)
RECURSIVE ViewAll(_, _)
ViewAll(hp, addrs) ==
    IF addrs = <<>> THEN <<>>
    ELSE <<View(hp, Head(addrs))>> \o ViewAll(hp, Tail(addrs))

View(hp, a) ==
    IF hp[a].kind.tag = "Normal"
    THEN ExprKind_Normal(View(hp, hp[a].kind.head), ViewAll(hp, hp[a].kind.contents))
    ELSE ExprKind_Integer(hp[a].kind.int)

\* The tree an owned ExprKind stands for.
KindView(hp, kind) ==
    IF kind.tag = "Normal"
    THEN ExprKind_Normal(View(hp, kind.head), ViewAll(hp, kind.contents))
    ELSE ExprKind_Integer(kind.int)

Expr_eq_Identity(hp, a, b) == a = b

\* #[derive(PartialEq)] on Expr compares the Arcs; Arc<T: Eq> answers true for
\* one allocation and otherwise compares the ExprKinds: the variants, then
\* the fields, a Normal's head and elements being Exprs again.
RECURSIVE Expr_eq(_, _, _)
Expr_eq(hp, a, b) ==
    \/ a = b
    \/ LET x == hp[a].kind
           y == hp[b].kind
       IN /\ x.tag = y.tag
          /\ IF x.tag = "Normal"
             THEN /\ Expr_eq(hp, x.head, y.head)
                  /\ Len(x.contents) = Len(y.contents)
                  /\ \A k \in 1..Len(x.contents) :
                        Expr_eq(hp, x.contents[k], y.contents[k])
             ELSE x.int = y.int

\* #[derive(Hash)] on Expr, ExprKind and Normal, as the writes the Hasher
\* receives: the variant's discriminant, then the fields; the Vec writes its
\* length before its elements.
RECURSIVE Expr_hash(_, _)
RECURSIVE Expr_hash_slice(_, _)
Expr_hash_slice(hp, addrs) ==
    IF addrs = <<>> THEN <<>>
    ELSE Expr_hash(hp, Head(addrs)) \o Expr_hash_slice(hp, Tail(addrs))

Expr_hash(hp, a) ==
    LET x == hp[a].kind IN
    IF x.tag = "Normal"
    THEN <<<<"isize", 4>>>> \o Expr_hash(hp, x.head)
         \o <<<<"usize", Len(x.contents)>>>> \o Expr_hash_slice(hp, x.contents)
    ELSE <<<<"isize", 0>>, <<"i64", x.int>>>>

IsUnique_Always(strong) == TRUE

IsUnique_Never(strong) == FALSE

\* Arc::make_mut's test: this is the only strong reference.
IsUnique(strong) == strong = 1

try_unwrap_Never(strong) == FALSE

\* Arc::try_unwrap's test: Ok when this is the only strong reference.
try_unwrap_ok(strong) == strong = 1

\* Arc::make_mut on the Expr at address a: the allocation to write to, and the
\* heap once it is this Expr's alone.  A shared ExprKind is cloned into a new
\* allocation and the reference to the old one dropped.
make_mut(hp, a) ==
    IF IsUnique(hp[a].strong)
    THEN [heap |-> hp, at |-> a, cloned |-> 0, allocs |-> 0]
    ELSE LET b == Alloc(hp)
             copied == RetainAll(hp, Children(hp[a].kind))
             placed == [copied EXCEPT ![b] = Cell(1, hp[a].kind)]
         IN [heap |-> ReleaseAll(placed, <<a>>), at |-> b, cloned |-> 1, allocs |-> 1]

\* *place = kind: the ExprKind that was there is dropped.
Assign(hp, a, kind) ==
    ReleaseAll([hp EXCEPT ![a].kind = kind], Children(hp[a].kind))

\* ------------------------- lib.rs: Expr as Arc<ExprKind>, among threads

Thread == 1..MaxThreads

CAddr == 1..MaxArcs

ArcCell(strong, data) == [live |-> TRUE, strong |-> strong, data |-> data]

FreeArc == [live |-> FALSE, strong |-> 0, data |-> 0]

fetch_add_Lost(strong) == strong

\* strong.fetch_add(1): Arc::clone, one atomic step.
fetch_add(strong) == strong + 1

\* strong.fetch_sub(1): Drop for Arc, one atomic step.
fetch_sub(strong) == strong - 1

ArcAlloc(cs) ==
    CHOOSE a \in CAddr : ~cs[a].live /\ \A b \in 1..(a - 1) : cs[b].live

Local(old, fresh) == [old |-> old, fresh |-> fresh]

NoLocal == Local(0, 0)

NotRead == [got |-> None, want |-> None]

\* ------------------------------------------------- the initial values

NoCall == [op |-> "none", arg |-> <<>>, name |-> <<>>, out |-> Ok(None)]

NoSplit == [context |-> None, name |-> None]

Call(op, arg, name, out) == [op |-> op, arg |-> arg, name |-> name, out |-> out]

\* A record of the operation just made: the binding it was made on, the
\* ExprKind::clone and Arc::new calls it made, the other bindings that held
\* the same allocation before it, and whether it wrote through a &mut.
Op(op, handle, cloned, allocs, peers, wrote) ==
    [op |-> op, handle |-> handle, cloned |-> cloned, allocs |-> allocs,
     peers |-> peers, wrote |-> wrote]

IdleSym ==
    /\ input = <<>>
    /\ symV = None
    /\ nameV = None
    /\ relV = None
    /\ ctxs = [i \in 1..2 |-> None]
    /\ ret = NoCall
    /\ split = NoSplit

IdleDisplay ==
    /\ expr = ExprKind_Integer(0)
    /\ shown = None
    /\ tagged = None

NoOwn == [ty |-> "none", text |-> <<>>, by |-> "none"]

Owned(ty, text, by) == [ty |-> ty, text |-> text, by |-> by]

IdleOwn ==
    /\ given = <<>>
    /\ own = NoOwn

IdleConc ==
    /\ cells = [a \in CAddr |-> FreeArc]
    /\ mine = [t \in Thread |-> 0]
    /\ pc = [t \in Thread |-> "idle"]
    /\ lcl = [t \in Thread |-> NoLocal]
    /\ expect = [t \in Thread |-> 0]
    /\ obs = [t \in Thread |-> NotRead]

InitHeap ==
    /\ heap = [a \in Addr |-> FreeCell]
    /\ h = [i \in Handle |-> 0]
    /\ taken = None
    /\ last = Op("none", 0, 0, 0, {}, FALSE)

\* --------------------------------------------------- Spec: Expr handles

\* The other bindings that hold the allocation binding i holds.
Peers(i) == {j \in Handle \ {i} : h[j] = h[i]}

\* h[i] = Expr::from(n)
Expr_from(i, n) ==
    /\ h[i] = 0
    /\ HasFree(heap)
    /\ LET a == Alloc(heap) IN
       /\ heap' = [heap EXCEPT ![a] = Cell(1, KInteger(n))]
       /\ h' = [h EXCEPT ![i] = a]
    /\ UNCHANGED taken

\* h[i] = Expr::normal(h[i], vec![h[j] for j in args]): the head and the
\* elements are moved into the new ExprKind.
Expr_normal(i, args) ==
    /\ h[i] # 0
    /\ \A k \in 1..Len(args) : h[args[k]] # 0 /\ args[k] # i
    /\ \A k, m \in 1..Len(args) : k # m => args[k] # args[m]
    /\ HasFree(heap)
    /\ LET a == Alloc(heap) IN
       /\ heap' = [heap EXCEPT
            ![a] = Cell(1, KNormal(h[i], [k \in 1..Len(args) |-> h[args[k]]]))]
       /\ h' = [j \in Handle |->
                  IF j = i THEN a
                  ELSE IF \E k \in 1..Len(args) : args[k] = j THEN 0
                  ELSE h[j]]
    /\ UNCHANGED taken

\* h[j] = h[i].clone()
Expr_clone(i, j) ==
    /\ h[i] # 0
    /\ h[j] = 0
    /\ heap' = RetainAll(heap, <<h[i]>>)
    /\ h' = [h EXCEPT ![j] = h[i]]
    /\ UNCHANGED taken

\* drop(h[i])
Expr_drop(i) ==
    /\ h[i] # 0
    /\ heap' = ReleaseAll(heap, <<h[i]>>)
    /\ h' = [h EXCEPT ![i] = 0]
    /\ UNCHANGED taken

\* The writes a caller makes through the &mut ExprKind kind_mut returns:
\* none, an integer stored, or the ExprKind the caller owns moved in.
Writes == {<<"none", 0>>, <<"taken", 0>>} \cup {<<"int", n>> : n \in IntVals}

\* h[i].kind_mut(), and the write through the reference it returns.
Expr_kind_mut(i, w) ==
    /\ h[i] # 0
    /\ w[1] = "taken" => taken # None
    /\ ~IsUnique(heap[h[i]].strong) => HasFree(heap)
    /\ LET m == make_mut(heap, h[i]) IN
       /\ heap' = CASE w[1] = "none" -> m.heap
                    [] w[1] = "int" -> Assign(m.heap, m.at, KInteger(w[2]))
                    [] w[1] = "taken" -> Assign(m.heap, m.at, taken[1])
       /\ h' = [h EXCEPT ![i] = m.at]
    /\ taken' = IF w[1] = "taken" THEN None ELSE taken

\* taken = Some(h[i].to_kind()): Arc::try_unwrap, or a clone of the ExprKind
\* and the drop of self.
Expr_to_kind(i) ==
    /\ h[i] # 0
    /\ taken = None
    /\ LET a == h[i] IN
       IF try_unwrap_ok(heap[a].strong)
       THEN /\ heap' = [heap EXCEPT ![a] = FreeCell]
            /\ taken' = Some(heap[a].kind)
       ELSE /\ heap' = ReleaseAll(RetainAll(heap, Children(heap[a].kind)), <<a>>)
            /\ taken' = Some(heap[a].kind)
    /\ h' = [h EXCEPT ![i] = 0]

\* h[i] = Expr::new(taken)
Expr_new(i) ==
    /\ h[i] = 0
    /\ taken # None
    /\ HasFree(heap)
    /\ LET a == Alloc(heap) IN
       /\ heap' = [heap EXCEPT ![a] = Cell(1, taken[1])]
       /\ h' = [h EXCEPT ![i] = a]
    /\ taken' = None

\* drop(taken)
ExprKind_drop ==
    /\ taken # None
    /\ heap' = ReleaseAll(heap, Children(taken[1]))
    /\ taken' = None
    /\ UNCHANGED h

\* The elements handed to Expr::normal: other bindings, each moved once.
ArgLists == UNION {[1..n -> Handle] : n \in 0..(MaxHandles - 1)}

\* Each operation as a step that also records, in last, what it did.
ExprFromInteger(i, n) ==
    /\ Expr_from(i, n)
    /\ last' = Op("from", i, 0, 1, {}, FALSE)
    /\ HeapOnly

ExprNormal(i, args) ==
    /\ Expr_normal(i, args)
    /\ last' = Op("normal", i, 0, 1, {}, FALSE)
    /\ HeapOnly

ExprClone(i, j) ==
    /\ Expr_clone(i, j)
    /\ last' = Op("clone", i, 0, 0, Peers(i), FALSE)
    /\ HeapOnly

ExprDrop(i) ==
    /\ Expr_drop(i)
    /\ last' = Op("drop", i, 0, 0, Peers(i), FALSE)
    /\ HeapOnly

KindMut(i, w) ==
    /\ Expr_kind_mut(i, w)
    /\ LET m == make_mut(heap, h[i]) IN
       last' = Op("kind_mut", i, m.cloned, m.allocs, Peers(i), w[1] # "none")
    /\ HeapOnly

ToKind(i) ==
    /\ Expr_to_kind(i)
    /\ last' = Op("to_kind", i, IF try_unwrap_ok(heap[h[i]].strong) THEN 0 ELSE 1,
                  0, Peers(i), FALSE)
    /\ HeapOnly

ExprNew(i) ==
    /\ Expr_new(i)
    /\ last' = Op("new", i, 0, 1, {}, FALSE)
    /\ HeapOnly

DropKind ==
    /\ ExprKind_drop
    /\ last' = Op("drop_kind", 0, 0, 0, {}, FALSE)
    /\ HeapOnly

HeapStep ==
    \/ \E i \in Handle, n \in IntVals : ExprFromInteger(i, n)
    \/ \E i \in Handle, args \in ArgLists : ExprNormal(i, args)
    \/ \E i, j \in Handle : ExprClone(i, j)
    \/ \E i \in Handle : ExprDrop(i)
    \/ \E i \in Handle, w \in Writes : KindMut(i, w)
    \/ \E i \in Handle : ToKind(i)
    \/ \E i \in Handle : ExprNew(i)
    \/ DropKind

Init == InitHeap /\ IdleSym /\ IdleDisplay /\ IdleConc /\ IdleOwn

Next == HeapStep

Spec == Init /\ [][Next]_vars

\* ------------------------------------- SpecHeap: the same operations,
\* nothing recorded

\* The steps of Spec with last left as it is: the states are those of the
\* handles, the allocations and the owned ExprKind alone.
From(i, n) == Expr_from(i, n) /\ UNCHANGED last /\ HeapOnly

Normal(i, args) == Expr_normal(i, args) /\ UNCHANGED last /\ HeapOnly

Clone(i, j) == Expr_clone(i, j) /\ UNCHANGED last /\ HeapOnly

Drop(i) == Expr_drop(i) /\ UNCHANGED last /\ HeapOnly

MakeMut(i, w) == Expr_kind_mut(i, w) /\ UNCHANGED last /\ HeapOnly

Unwrap(i) == Expr_to_kind(i) /\ UNCHANGED last /\ HeapOnly

New(i) == Expr_new(i) /\ UNCHANGED last /\ HeapOnly

DropOwned == ExprKind_drop /\ UNCHANGED last /\ HeapOnly

NextHeap ==
    \/ \E i \in Handle, n \in IntVals : From(i, n)
    \/ \E i \in Handle, args \in ArgLists : Normal(i, args)
    \/ \E i, j \in Handle : Clone(i, j)
    \/ \E i \in Handle : Drop(i)
    \/ \E i \in Handle, w \in Writes : MakeMut(i, w)
    \/ \E i \in Handle : Unwrap(i)
    \/ \E i \in Handle : New(i)
    \/ DropOwned

SpecHeap == Init /\ [][NextHeap]_vars

\* ------------------------------------ SpecConc: Exprs shared by threads

\* Every step below is one access to shared memory, as Arc makes it; the
\* rest of each operation is local to the thread.  An Expr creates no Weak,
\* so the weak count make_mut reads is always 1.  obs holds a thread's read
\* until its next step.

Forget(t) == [obs EXCEPT ![t] = NotRead]

\* mine[t] = Expr::from(n)
ConcNew(t, n) ==
    /\ pc[t] = "idle"
    /\ mine[t] = 0
    /\ \E a \in CAddr : ~cells[a].live
    /\ LET a == ArcAlloc(cells) IN
       /\ cells' = [cells EXCEPT ![a] = ArcCell(1, n)]
       /\ mine' = [mine EXCEPT ![t] = a]
    /\ expect' = [expect EXCEPT ![t] = n]
    /\ obs' = Forget(t)
    /\ UNCHANGED <<pc, lcl>>
    /\ ConcOnly

\* Thread t clones its Expr and hands the clone to thread u, which owns none.
ConcClone(t, u) ==
    /\ pc[t] = "idle"
    /\ pc[u] = "idle"
    /\ mine[t] # 0
    /\ mine[u] = 0
    /\ cells' = [cells EXCEPT ![mine[t]].strong = fetch_add(@)]
    /\ mine' = [mine EXCEPT ![u] = mine[t]]
    /\ expect' = [expect EXCEPT ![u] = expect[t]]
    /\ obs' = [Forget(t) EXCEPT ![u] = NotRead]
    /\ UNCHANGED <<pc, lcl>>
    /\ ConcOnly

\* drop(mine[t]): the fetch_sub; the thread that took the last reference
\* goes on to free the allocation.
ConcDrop(t) ==
    /\ pc[t] = "idle"
    /\ mine[t] # 0
    /\ cells' = [cells EXCEPT ![mine[t]].strong = fetch_sub(@)]
    /\ mine' = [mine EXCEPT ![t] = 0]
    /\ IF cells[mine[t]].strong = 1
       THEN /\ pc' = [pc EXCEPT ![t] = "free"]
            /\ lcl' = [lcl EXCEPT ![t] = Local(mine[t], 0)]
       ELSE UNCHANGED <<pc, lcl>>
    /\ expect' = [expect EXCEPT ![t] = 0]
    /\ obs' = Forget(t)
    /\ ConcOnly

\* drop_slow: the data is dropped and the allocation freed.
ConcFree(t) ==
    /\ pc[t] = "free"
    /\ cells' = [cells EXCEPT ![lcl[t].old] = FreeArc]
    /\ pc' = [pc EXCEPT ![t] = "idle"]
    /\ lcl' = [lcl EXCEPT ![t] = NoLocal]
    /\ UNCHANGED <<mine, expect, obs>>
    /\ ConcOnly

\* mine[t].kind(): a read of the data.
ConcRead(t) ==
    /\ pc[t] = "idle"
    /\ mine[t] # 0
    /\ obs' = [obs EXCEPT ![t] = [got |-> Some(cells[mine[t]].data),
                                  want |-> Some(expect[t])]]
    /\ UNCHANGED <<cells, mine, pc, lcl, expect>>
    /\ ConcOnly

\* mine[t].kind_mut(): make_mut's compare_exchange(1, 0) on the strong count.
ConcMutBegin(t) ==
    /\ pc[t] = "idle"
    /\ mine[t] # 0
    /\ IF IsUnique(cells[mine[t]].strong)
       THEN /\ cells' = [cells EXCEPT ![mine[t]].strong = 0]
            /\ pc' = [pc EXCEPT ![t] = "restore"]
       ELSE /\ cells' = cells
            /\ pc' = [pc EXCEPT ![t] = "clone"]
    /\ lcl' = [lcl EXCEPT ![t] = Local(mine[t], 0)]
    /\ obs' = Forget(t)
    /\ UNCHANGED <<mine, expect>>
    /\ ConcOnly

\* make_mut, unique: strong.store(1).
ConcMutRestore(t) ==
    /\ pc[t] = "restore"
    /\ cells' = [cells EXCEPT ![mine[t]].strong = 1]
    /\ pc' = [pc EXCEPT ![t] = "write"]
    /\ UNCHANGED <<mine, lcl, expect, obs>>
    /\ ConcOnly

\* make_mut, shared: the data is cloned into a new Arc.
ConcMutClone(t) ==
    /\ pc[t] = "clone"
    /\ \E a \in CAddr : ~cells[a].live
    /\ LET b == ArcAlloc(cells) IN
       /\ cells' = [cells EXCEPT ![b] = ArcCell(1, cells[mine[t]].data)]
       /\ lcl' = [lcl EXCEPT ![t].fresh = b]
    /\ pc' = [pc EXCEPT ![t] = "swap"]
    /\ UNCHANGED <<mine, expect, obs>>
    /\ ConcOnly

\* make_mut, shared: *this = arc, which drops the reference to the old
\* allocation.
ConcMutSwap(t) ==
    /\ pc[t] = "swap"
    /\ cells' = [cells EXCEPT ![mine[t]].strong = fetch_sub(@)]
    /\ mine' = [mine EXCEPT ![t] = lcl[t].fresh]
    /\ pc' = [pc EXCEPT ![t] =
                IF cells[mine[t]].strong = 1 THEN "swap_free" ELSE "write"]
    /\ lcl' = [lcl EXCEPT ![t] =
                IF cells[mine[t]].strong = 1 THEN Local(mine[t], 0) ELSE NoLocal]
    /\ UNCHANGED <<expect, obs>>
    /\ ConcOnly

\* make_mut, shared: the old allocation's last reference was this one.
ConcMutSwapFree(t) ==
    /\ pc[t] = "swap_free"
    /\ cells' = [cells EXCEPT ![lcl[t].old] = FreeArc]
    /\ pc' = [pc EXCEPT ![t] = "write"]
    /\ lcl' = [lcl EXCEPT ![t] = NoLocal]
    /\ UNCHANGED <<mine, expect, obs>>
    /\ ConcOnly

\* *e.kind_mut() = Integer(n): the write through the &mut ExprKind returned.
ConcMutWrite(t, n) ==
    /\ pc[t] = "write"
    /\ cells' = [cells EXCEPT ![mine[t]].data = n]
    /\ expect' = [expect EXCEPT ![t] = n]
    /\ pc' = [pc EXCEPT ![t] = "idle"]
    /\ lcl' = [lcl EXCEPT ![t] = NoLocal]
    /\ UNCHANGED <<mine, obs>>
    /\ ConcOnly

InitConc == IdleConc /\ InitHeap /\ IdleSym /\ IdleDisplay /\ IdleOwn

NextConc ==
    \/ \E t \in Thread, n \in IntVals : ConcNew(t, n)
    \/ \E t, u \in Thread : ConcClone(t, u)
    \/ \E t \in Thread : ConcDrop(t)
    \/ \E t \in Thread : ConcFree(t)
    \/ \E t \in Thread : ConcRead(t)
    \/ \E t \in Thread : ConcMutBegin(t)
    \/ \E t \in Thread : ConcMutRestore(t)
    \/ \E t \in Thread : ConcMutClone(t)
    \/ \E t \in Thread : ConcMutSwap(t)
    \/ \E t \in Thread : ConcMutSwapFree(t)
    \/ \E t \in Thread, n \in IntVals : ConcMutWrite(t, n)

SpecConc == InitConc /\ [][NextConc]_vars

\* ------------------------------------------ SpecSym: the identifier types

Names == {t \in UNION {[1..n -> Alphabet] : n \in 1..MaxNameLen} :
            SymbolNameRef_try_new(t) # None}

InitSym ==
    /\ input \in Texts
    /\ symV = None
    /\ nameV = None
    /\ relV = None
    /\ ctxs = [i \in 1..2 |-> None]
    /\ ret = NoCall
    /\ split = NoSplit
    /\ IdleDisplay
    /\ InitHeap
    /\ IdleConc
    /\ IdleOwn

\* Symbol::try_new(input)
SymbolTryNew ==
    LET r == Symbol_try_new(input) IN
    /\ ret' = Call("Symbol::try_new", input, <<>>, Ok(r))
    /\ symV' = r
    /\ split' = NoSplit
    /\ UNCHANGED <<input, nameV, relV, ctxs>>
    /\ SymOnly

\* Symbol::new(input): a panic unwinds and binds nothing.
SymbolNew ==
    LET o == Symbol_new(input) IN
    /\ ret' = Call("Symbol::new", input, <<>>, o)
    /\ symV' = IF o.panic THEN symV ELSE Some(o.val)
    /\ split' = IF o.panic THEN split ELSE NoSplit
    /\ UNCHANGED <<input, nameV, relV, ctxs>>
    /\ SymOnly

\* SymbolName::try_new(input)
SymbolNameTryNew ==
    LET r == SymbolName_try_new(input) IN
    /\ ret' = Call("SymbolName::try_new", input, <<>>, Ok(r))
    /\ nameV' = r
    /\ UNCHANGED <<input, symV, relV, ctxs, split>>
    /\ SymOnly

\* RelativeContext::try_new(input)
RelativeContextTryNew ==
    LET r == RelativeContext_try_new(input) IN
    /\ ret' = Call("RelativeContext::try_new", input, <<>>, Ok(r))
    /\ relV' = r
    /\ UNCHANGED <<input, symV, nameV, ctxs, split>>
    /\ SymOnly

\* Context::try_new(input), bound to the first context binding.
ContextTryNew ==
    LET r == Context_try_new(input) IN
    /\ ret' = Call("Context::try_new", input, <<>>, Ok(r))
    /\ ctxs' = [ctxs EXCEPT ![1] = r]
    /\ UNCHANGED <<input, symV, nameV, relV, split>>
    /\ SymOnly

\* Context::new(input)
ContextNew ==
    LET o == Context_new(input) IN
    /\ ret' = Call("Context::new", input, <<>>, o)
    /\ ctxs' = IF o.panic THEN ctxs ELSE [ctxs EXCEPT ![1] = Some(o.val)]
    /\ UNCHANGED <<input, symV, nameV, relV, split>>
    /\ SymOnly

\* ctxs[3 - i] = ctxs[i].join(name): the receiver is borrowed, the result is
\* bound to the other binding.
ContextJoin(i, name) ==
    /\ ctxs[i] # None
    /\ Len(ctxs[i][1]) + Len(name) + 1 <= MaxLen + MaxNameLen
    /\ LET o == Context_join(ctxs[i][1], name) IN
       /\ ret' = Call("Context::join", ctxs[i][1], name, o)
       /\ ctxs' = IF o.panic THEN ctxs ELSE [ctxs EXCEPT ![3 - i] = Some(o.val)]
    /\ UNCHANGED <<input, symV, nameV, relV, split>>
    /\ SymOnly

\* ctxs[i].components()
ContextComponents(i) ==
    /\ ctxs[i] # None
    /\ ret' = Call("Context::components", ctxs[i][1], <<>>,
                   Context_components(ctxs[i][1]))
    /\ UNCHANGED <<input, symV, nameV, relV, ctxs, split>>
    /\ SymOnly

\* relV.components()
RelativeContextComponents ==
    /\ relV # None
    /\ ret' = Call("RelativeContext::components", relV[1], <<>>,
                   RelativeContext_components(relV[1]))
    /\ UNCHANGED <<input, symV, nameV, relV, ctxs, split>>
    /\ SymOnly

\* symV.context(): Symbol::context is as_symbol_ref().context().
SymbolContext ==
    /\ symV # None
    /\ LET o == SymbolRef_context(symV[1]) IN
       /\ ret' = Call("Symbol::context", symV[1], <<>>, o)
       /\ split' = IF o.panic THEN split
                   ELSE [split EXCEPT !.context = Some(o.val)]
    /\ UNCHANGED <<input, symV, nameV, relV, ctxs>>
    /\ SymOnly

\* symV.symbol_name()
SymbolSymbolName ==
    /\ symV # None
    /\ LET o == SymbolRef_symbol_name(symV[1]) IN
       /\ ret' = Call("Symbol::symbol_name", symV[1], <<>>, o)
       /\ split' = IF o.panic THEN split
                   ELSE [split EXCEPT !.name = Some(o.val)]
    /\ UNCHANGED <<input, symV, nameV, relV, ctxs>>
    /\ SymOnly

SymStep ==
    \/ SymbolTryNew
    \/ SymbolNew
    \/ SymbolNameTryNew
    \/ RelativeContextTryNew
    \/ ContextTryNew
    \/ ContextNew
    \/ \E i \in 1..2, name \in Names : ContextJoin(i, name)
    \/ \E i \in 1..2 : ContextComponents(i)
    \/ RelativeContextComponents
    \/ SymbolContext
    \/ SymbolSymbolName

NextSym == SymStep

SpecSym == InitSym /\ [][NextSym]_vars

\* ------------------------------- SpecOwn: the owned identifier values

\* One owned value is held at a time; every operation that makes an owned
\* value from it, from a text or from nothing replaces it.  A constructor
\* that returns None or panics leaves it as it was.  A run hands its text
\* to one constructor, after which no text is pending (given is empty);
\* what is made from Context::global(), Context::system() and Expr::null()
\* does not depend on a text, and is followed where none is pending.

OwnTypes == {"Symbol", "SymbolName", "Context", "RelativeContext"}

\* T::try_new(string)
TryNewOf(ty, string) ==
    CASE ty = "Symbol" -> Symbol_try_new(string)
      [] ty = "SymbolName" -> SymbolName_try_new(string)
      [] ty = "Context" -> Context_try_new(string)
      [] ty = "RelativeContext" -> RelativeContext_try_new(string)

Keep(o, ty, by) == IF o.panic THEN own ELSE Owned(ty, o.val, by)

OwnTryNew(ty) ==
    /\ given # <<>>
    /\ own' = LET r == TryNewOf(ty, given) IN
              IF r = None THEN own ELSE Owned(ty, r[1], "try_new")
    /\ given' = <<>>
    /\ OwnOnly

OwnSymbolNew ==
    /\ given # <<>>
    /\ own' = Keep(Symbol_new(given), "Symbol", "new")
    /\ given' = <<>>
    /\ OwnOnly

OwnContextNew ==
    /\ given # <<>>
    /\ own' = Keep(Context_new(given), "Context", "new")
    /\ given' = <<>>
    /\ OwnOnly

OwnGlobal ==
    /\ given = <<>>
    /\ own' = Owned("Context", Context_global, "global")
    /\ UNCHANGED given
    /\ OwnOnly

OwnSystem ==
    /\ given = <<>>
    /\ own' = Owned("Context", Context_system, "system")
    /\ UNCHANGED given
    /\ OwnOnly

\* Expr::null(), and the Symbol it holds.
OwnNull ==
    /\ given = <<>>
    /\ own' = Owned("Symbol", Expr_null_symbol, "null")
    /\ UNCHANGED given
    /\ OwnOnly

\* own.join(name)
OwnJoin(name) ==
    /\ own.ty = "Context"
    /\ Len(own.text) + Len(name) + 1 <= MaxLen + MaxNameLen
    /\ own' = Keep(Context_join(own.text, name), "Context", "join")
    /\ UNCHANGED given
    /\ OwnOnly

\* Context::from_symbol_name(&own)
OwnFromSymbolName ==
    /\ own.ty = "SymbolName"
    /\ own' = Keep(Context_from_symbol_name(own.text), "Context", "from_symbol_name")
    /\ UNCHANGED given
    /\ OwnOnly

\* own.context().to_context()
OwnToContext ==
    /\ own.ty = "Symbol"
    /\ own' = LET o == SymbolRef_context(own.text) IN
              IF o.panic THEN own
              ELSE Owned("Context", to_context(o.val), "to_context")
    /\ UNCHANGED given
    /\ OwnOnly

\* own.symbol_name().to_symbol_name()
OwnToSymbolName ==
    /\ own.ty = "Symbol"
    /\ own' = LET o == SymbolRef_symbol_name(own.text) IN
              IF o.panic THEN own
              ELSE Owned("SymbolName", to_symbol_name(o.val), "to_symbol_name")
    /\ UNCHANGED given
    /\ OwnOnly

\* own.components()[k].to_symbol_name()
OwnComponent(k) ==
    /\ own.ty \in {"Context", "RelativeContext"}
    /\ LET o == IF own.ty = "Context" THEN Context_components(own.text)
                ELSE RelativeContext_components(own.text) IN
       /\ ~o.panic
       /\ k <= Len(o.val)
       /\ own' = Owned("SymbolName", to_symbol_name(o.val[k]), "to_symbol_name")
    /\ UNCHANGED given
    /\ OwnOnly

\* own.as_symbol_ref().to_symbol()
OwnToSymbol ==
    /\ own.ty = "Symbol"
    /\ own' = Owned("Symbol", to_symbol(own.text), "to_symbol")
    /\ UNCHANGED given
    /\ OwnOnly

\* own.clone(): the Arc<String> is shared, the text is the same.
OwnClone ==
    /\ own.ty # "none"
    /\ own' = [own EXCEPT !.by = "clone"]
    /\ UNCHANGED given
    /\ OwnOnly

InitOwn ==
    /\ given \in Texts
    /\ own = NoOwn
    /\ IdleSym
    /\ IdleDisplay
    /\ InitHeap
    /\ IdleConc

NextOwn ==
    \/ \E ty \in OwnTypes : OwnTryNew(ty)
    \/ OwnSymbolNew
    \/ OwnContextNew
    \/ OwnGlobal
    \/ OwnSystem
    \/ OwnNull
    \/ \E name \in Names : OwnJoin(name)
    \/ OwnFromSymbolName
    \/ OwnToContext
    \/ OwnToSymbolName
    \/ \E k \in 1..MaxLen : OwnComponent(k)
    \/ OwnToSymbol
    \/ OwnClone

SpecOwn == InitOwn /\ [][NextOwn]_vars

\* ------------------------------------------- SpecDisplay: Display of Expr

\* The arguments handed to the leaf constructors.
IntInputs == {0 - 12, 1}

FloatInputs == {Float("fin", TRUE, 0), Float("fin", FALSE, 3),
                Float("inf", TRUE, 0), NaN}

StrInputs == {<<"1">>, <<"\"">>, <<"\\", "n">>, <<"\n">>}

SymInputs == {<<"a", Grave, "a">>, <<"a">>}

\* What Expr::from(i64), Expr::real, Expr::string and Expr::symbol(Symbol::new(..))
\* return on those arguments; a constructor that panics returns nothing.
Leaves ==
    {ExprKind_Integer(n) : n \in IntInputs}
    \cup {Expr_real(r).val : r \in {f \in FloatInputs : ~Expr_real(f).panic}}
    \cup {ExprKind_String(str) : str \in StrInputs}
    \cup {ExprKind_Symbol(Symbol_new(t).val) :
              t \in {u \in SymInputs : ~Symbol_new(u).panic}}

\* What Expr::normal builds over them, by the number of nodes.
RECURSIVE ExprsOfSize(_)
RECURSIVE ArgsOfSize(_)
ExprsOfSize(n) ==
    IF n = 1 THEN Leaves
    ELSE UNION {{ExprKind_Normal(hd, a) : hd \in ExprsOfSize(k),
                                        a \in ArgsOfSize(n - 1 - k)} :
                k \in 1..(n - 1)}

ArgsOfSize(m) ==
    IF m = 0 THEN {<<>>}
    ELSE UNION {{<<x>> \o rest : x \in ExprsOfSize(j), rest \in ArgsOfSize(m - j)} :
                j \in 1..m}

\* Expr::normal(Symbol::new("System`List"), vec![1, 2, 3]).
ListOf123 ==
    ExprKind_Normal(
        ExprKind_Symbol(
            Symbol_new(<<"S", "y", "s", "t", "e", "m", Grave, "L", "i", "s", "t">>).val),
        <<ExprKind_Integer(1), ExprKind_Integer(2), ExprKind_Integer(3)>>)

InitDisplay ==
    /\ \/ \E n \in 1..MaxNodes : expr \in ExprsOfSize(n)
       \/ expr = ListOf123
    /\ shown = None
    /\ tagged = None
    /\ IdleSym
    /\ InitHeap
    /\ IdleConc
    /\ IdleOwn

\* expr.to_string(): Display for Expr.
ExprToString ==
    /\ shown' = Some(Display(expr))
    /\ UNCHANGED <<expr, tagged>>
    /\ DisplayOnly

\* expr.tag()
ExprTag ==
    /\ tagged' = Some(tag(expr))
    /\ UNCHANGED <<expr, shown>>
    /\ DisplayOnly

NextDisplay == ExprToString \/ ExprTag

SpecDisplay == InitDisplay /\ [][NextDisplay]_vars

\* ----------------------------------------------- the identifier grammar,
\* stated on the text as a whole (the claims' side of the validation).

GravesOf(t) == {k \in 1..Len(t) : t[k] = Grave}

\* The index of the grave before index g, 0 when there is none.
PrevGrave(t, g) ==
    LET before == {0} \cup {k \in GravesOf(t) : k < g} IN
    CHOOSE k \in before : \A m \in before : m <= k

LastGrave(t) == PrevGrave(t, Len(t) + 1)

\* The text between the grave at g and the grave before it.
ComponentBefore(t, g) == SubSeq(t, PrevGrave(t, g) + 1, g - 1)

\* [A-Za-z$][A-Za-z0-9$]*
IsValidName(t) ==
    /\ Len(t) >= 1
    /\ t[1] \in Letters \cup LiteralLetters \cup {Dollar}
    /\ \A k \in 2..Len(t) :
          t[k] \in Letters \cup LiteralLetters \cup Digits \cup {Dollar}

IsValidSymbolText(t) ==
    /\ GravesOf(t) # {}
    /\ IsValidName(SubSeq(t, LastGrave(t) + 1, Len(t)))
    /\ \A g \in GravesOf(t) : IsValidName(ComponentBefore(t, g))

IsValidContextText(t) ==
    /\ Len(t) >= 1
    /\ t[Len(t)] = Grave
    /\ \A g \in GravesOf(t) : IsValidName(ComponentBefore(t, g))

IsValidRelativeContextText(t) ==
    /\ Len(t) >= 1
    /\ t[1] = Grave
    /\ IsValidContextText(Tail(t))

\* ------------------------------------------------------------- C6 .. C10

\* C6: Symbol::try_new returns a present result exactly when the text holds
\* at least one context mark, the part after the last mark is a valid name
\* and every component before it is a valid non-empty name; the present
\* result holds the text itself; a text without a mark, a digit-leading
\* name, an empty component, a leading mark and a trailing mark are answered
\* with an absent result, never with a panic.
C6_SymbolValidation ==
    ret.op = "Symbol::try_new" =>
        /\ ~ret.out.panic
        /\ ret.out.val # None <=> IsValidSymbolText(ret.arg)
        /\ ret.out.val # None => ret.out.val = Some(ret.arg)
        /\ symV = ret.out.val
        /\ ret.arg \in {<<"a">>, <<"1">>, <<"a", Grave, "1">>,
                        <<"a", Grave, Grave, "a">>, <<Grave, "a">>,
                        <<"a", Grave>>, <<"1", Grave, "a">>}
              => ret.out.val = None

\* A symbol with two context components has been accepted.
C6_Witness ==
    /\ ret.op = "Symbol::try_new"
    /\ ret.out.val # None
    /\ Cardinality(GravesOf(ret.arg)) = 2

\* C7: context() and symbol_name() split a valid symbol at its last context
\* mark: the two parts concatenate to the symbol's text, the name holds no
\* mark, the context ends with one, and neither call panics.
C7_ContextNameRecombine ==
    /\ ret.op \in {"Symbol::context", "Symbol::symbol_name"} => ~ret.out.panic
    /\ split.context # None =>
          /\ Len(split.context[1]) >= 1
          /\ split.context[1][Len(split.context[1])] = Grave
          /\ split.context[1] = SubSeq(symV[1], 1, Len(split.context[1]))
    /\ split.name # None =>
          /\ GravesOf(split.name[1]) = {}
          /\ Len(split.name[1]) <= Len(symV[1])
          /\ split.name[1] = SubSeq(symV[1],
                Len(symV[1]) - Len(split.name[1]) + 1, Len(symV[1]))
    /\ split.context # None /\ split.name # None =>
          split.context[1] \o split.name[1] = symV[1]

\* Both parts of a symbol with two context components have been taken.
C7_Witness ==
    /\ split.context # None
    /\ split.name # None
    /\ Cardinality(GravesOf(symV[1])) = 2

\* C8: Context::try_new returns a present result exactly when the text is one
\* or more valid names each followed by exactly one context mark, with no
\* mark before the first; the empty text, a text without the trailing mark,
\* with a leading mark or with two adjacent marks is answered with an absent
\* result.
C8_ContextValidation ==
    ret.op = "Context::try_new" =>
        /\ ~ret.out.panic
        /\ ret.out.val # None <=> IsValidContextText(ret.arg)
        /\ ret.out.val # None => ret.out.val = Some(ret.arg)
        /\ ctxs[1] = ret.out.val
        /\ ret.arg \in {<<>>, <<"a">>, <<"a", Grave, "a">>, <<Grave, "a", Grave>>,
                        <<"a", Grave, Grave>>, <<Grave>>}
              => ret.out.val = None

\* A context of two components has been accepted.
C8_Witness ==
    /\ ret.op = "Context::try_new"
    /\ ret.out.val # None
    /\ Cardinality(GravesOf(ret.arg)) = 2

\* C9: Context::join on a validated context and a validated name never
\* panics; the result's text is the context's text, the name and one context
\* mark; its components are the context's components with the name appended;
\* the receiver is left as it was.
C9_ContextJoin ==
    ret.op = "Context::join" =>
        /\ ~ret.out.panic
        /\ ret.out.val = ret.arg \o ret.name \o <<Grave>>
        /\ LET before == Context_components(ret.arg)
               after == Context_components(ret.out.val) IN
           /\ ~before.panic
           /\ ~after.panic
           /\ Len(after.val) = Len(before.val) + 1
           /\ after.val[Len(after.val)] = ret.name
           /\ after.val = before.val \o <<ret.name>>
        /\ \E i \in 1..2 : /\ ctxs[i] = Some(ret.arg)
                           /\ ctxs[3 - i] = Some(ret.out.val)

\* A name has been joined to a context of two components.
C9_Witness ==
    /\ ret.op = "Context::join"
    /\ ~ret.out.panic
    /\ Cardinality(GravesOf(ret.arg)) = 2
    /\ Len(ret.name) = 2

TryOps == {"Symbol::try_new", "SymbolName::try_new", "Context::try_new",
           "RelativeContext::try_new"}

IsValidFor(op, t) ==
    CASE op = "Symbol::try_new" -> IsValidSymbolText(t)
      [] op = "SymbolName::try_new" -> IsValidName(t) /\ GravesOf(t) = {}
      [] op = "Context::try_new" -> IsValidContextText(t)
      [] op = "RelativeContext::try_new" -> IsValidRelativeContextText(t)

\* C10: the try_new constructors never panic and answer invalid text with an
\* absent result; Symbol::new and Context::new panic exactly when the
\* matching try_new is absent and otherwise return the value try_new returns;
\* invalid text never yields a value, and a panic binds nothing.
C10_TwoErrorTiers ==
    /\ ret.op \in TryOps =>
          /\ ~ret.out.panic
          /\ ~IsValidFor(ret.op, ret.arg) => ret.out.val = None
    /\ ret.op = "Symbol::new" =>
          /\ ret.out.panic <=> Symbol_try_new(ret.arg) = None
          /\ ~ret.out.panic => Some(ret.out.val) = Symbol_try_new(ret.arg)
          /\ ~IsValidSymbolText(ret.arg) => ret.out.panic /\ ret.out.val = None
    /\ ret.op = "Context::new" =>
          /\ ret.out.panic <=> Context_try_new(ret.arg) = None
          /\ ~ret.out.panic => Some(ret.out.val) = Context_try_new(ret.arg)
          /\ ~IsValidContextText(ret.arg) => ret.out.panic /\ ret.out.val = None
    /\ symV # None => IsValidSymbolText(symV[1])
    /\ ctxs[1] # None => IsValidContextText(ctxs[1][1])

\* Symbol::new has panicked on a text that Context::try_new accepted.
C10_Witness ==
    /\ ret.op = "Symbol::new"
    /\ ret.out.panic
    /\ ctxs[1] = Some(ret.arg)

\* -------------------------------------------------------------- C1 .. C3

LiveAddrs(hp) == {a \in Addr : hp[a].live}

\* C1: a step of kind_mut on one binding, and the write made through the
\* reference it returns, leave every other binding holding the allocation
\* it held, and the tree read through it exactly as it was; so a binding
\* that shared the allocation sees none of the mutation.
C1_CopyOnWriteIsolation ==
    [][\A i \in Handle :
          last'.op = "kind_mut" /\ last'.handle = i =>
             \A j \in Handle \ {i} :
                /\ h'[j] = h[j]
                /\ h[j] # 0 =>
                      /\ heap'[h[j]].live
                      /\ View(heap', h[j]) = View(heap, h[j])]_vars

\* A binding has been written through kind_mut while another binding shared
\* its allocation, and the two now read differently.
C1_Witness ==
    /\ last.op = "kind_mut"
    /\ last.wrote
    /\ \E j \in last.peers :
          /\ h[j] # 0
          /\ View(heap, h[j]) # View(heap, h[last.handle])

\* C2: kind_mut on a binding whose reference count is 1 clones no ExprKind
\* and allocates nothing; the binding holds the same allocation afterwards,
\* no allocation has appeared, and the reference count is still 1.
C2_SoleHolderInPlace ==
    [][\A i \in Handle :
          /\ last'.op = "kind_mut"
          /\ last'.handle = i
          /\ h[i] # 0
          /\ ref_count(heap, h[i]) = 1
          => /\ last'.cloned = 0
             /\ last'.allocs = 0
             /\ h'[i] = h[i]
             /\ LiveAddrs(heap') \subseteq LiveAddrs(heap)
             /\ ref_count(heap', h'[i]) = 1]_vars

\* A sole holder has been written through kind_mut, and reads what was
\* written.
C2_Witness ==
    /\ last.op = "kind_mut"
    /\ last.wrote
    /\ last.cloned = 0
    /\ ref_count(heap, h[last.handle]) = 1
    /\ heap[h[last.handle]].kind.tag = "Normal"

\* C3: to_kind consumes the binding and returns an ExprKind that reads as the
\* binding did.  From a sole holder no ExprKind is cloned and the allocation
\* is released; from a shared allocation one clone is made, the allocation
\* stays, its ExprKind untouched, with one reference fewer.  Every other
\* binding holds and reads what it did.
C3_ToKind ==
    [][\A i \in Handle :
          last'.op = "to_kind" /\ last'.handle = i /\ h[i] # 0 =>
             /\ taken' # None
             /\ KindView(heap', taken'[1]) = View(heap, h[i])
             /\ h'[i] = 0
             /\ ref_count(heap, h[i]) = 1 =>
                   /\ last'.cloned = 0
                   /\ ~heap'[h[i]].live
             /\ ref_count(heap, h[i]) > 1 =>
                   /\ last'.cloned = 1
                   /\ heap'[h[i]].live
                   /\ heap'[h[i]].kind = heap[h[i]].kind
                   /\ ref_count(heap', h[i]) = ref_count(heap, h[i]) - 1
             /\ \A j \in Handle \ {i} :
                   /\ h'[j] = h[j]
                   /\ h[j] # 0 =>
                         /\ heap'[h[j]].live
                         /\ View(heap', h[j]) = View(heap, h[j])]_vars

\* to_kind has cloned the Normal of a shared allocation, which another
\* binding still holds.
C3_Witness ==
    /\ last.op = "to_kind"
    /\ last.cloned = 1
    /\ taken # None
    /\ taken[1].tag = "Normal"
    /\ \E j \in last.peers : h[j] # 0 /\ KindView(heap, taken[1]) = View(heap, h[j])

\* ------------------------------------------------------------------- C4

\* The references to an allocation that the strong count stands for: the
\* Exprs of the threads, but one whose compare_exchange has taken the count
\* to 0, and the Arc a make_mut has made and not yet stored.
Holders(a) ==
    Cardinality({u \in Thread : mine[u] = a /\ pc[u] # "restore"})
    + Cardinality({u \in Thread : pc[u] = "swap" /\ lcl[u].fresh = a})

At(t, i) == IF i >= 1 /\ i <= Len(t) THEN t[i] ELSE ""

Parsed(val, next) == [ok |-> TRUE, val |-> val, next |-> next]

Failed == [ok |-> FALSE, val |-> <<>>, next |-> 0]

IsDigit(c) == c \in {"0", "1", "2", "3", "4", "5", "6", "7", "8", "9"}

DigitValue(c) == CHOOSE d \in 0..9 : DigitChar(d) = c

RECURSIVE SkipDigits(_, _)
SkipDigits(t, i) == IF IsDigit(At(t, i)) THEN SkipDigits(t, i + 1) ELSE i

\* The number the digits t[i..j-1] write.
RECURSIVE DigitsValue(_, _, _)
DigitsValue(t, i, j) ==
    IF j <= i THEN 0
    ELSE 10 * DigitsValue(t, i, j - 1) + DigitValue(t[j - 1])

ReadNumber(t, i) ==
    LET neg == At(t, i) = "-"
        i1 == IF neg THEN i + 1 ELSE i
        j == SkipDigits(t, i1)
        whole == DigitsValue(t, i1, j)
    IN
    IF <<At(t, i1), At(t, i1 + 1), At(t, i1 + 2)>> = <<"i", "n", "f">>
    THEN Parsed(ExprKind_Real(Float("inf", neg, 0)), i1 + 3)
    ELSE IF j = i1 THEN Failed
    ELSE IF At(t, j) = "."
    THEN IF At(t, j + 1) \in {"0", "5"} /\ ~IsDigit(At(t, j + 2))
         THEN Parsed(ExprKind_Real(Float("fin", neg,
                        2 * whole + (IF At(t, j + 1) = "5" THEN 1 ELSE 0))), j + 2)
         ELSE Failed
    ELSE Parsed(ExprKind_Integer(IF neg THEN 0 - whole ELSE whole), j)

\* The characters of a string literal from i on, to its closing quote.
RECURSIVE ReadStringBody(_, _, _)
ReadStringBody(t, i, acc) ==
    IF i > Len(t) THEN Failed
    ELSE IF t[i] = "\"" THEN Parsed(ExprKind_String(acc), i + 1)
    ELSE IF t[i] = "\\"
    THEN CASE At(t, i + 1) = "\"" -> ReadStringBody(t, i + 2, Append(acc, "\""))
           [] At(t, i + 1) = "\\" -> ReadStringBody(t, i + 2, Append(acc, "\\"))
           [] At(t, i + 1) = "n" -> ReadStringBody(t, i + 2, Append(acc, "\n"))
           [] OTHER -> Failed
    ELSE ReadStringBody(t, i + 1, Append(acc, t[i]))

RECURSIVE SkipSymbolChars(_, _)
SkipSymbolChars(t, i) ==
    IF At(t, i) \in Letters \cup LiteralLetters \cup Digits \cup {Dollar, Grave}
    THEN SkipSymbolChars(t, i + 1) ELSE i

ReadSymbol(t, i) ==
    LET j == SkipSymbolChars(t, i)
        text == SubSeq(t, i, j - 1)
    IN
    IF IsValidSymbolText(text) THEN Parsed(ExprKind_Symbol(text), j)
    ELSE ReadNumber(t, i)

ReadAtom(t, i) ==
    IF At(t, i) = "\"" THEN ReadStringBody(t, i + 1, <<>>)
    ELSE IF At(t, i) = "-" \/ IsDigit(At(t, i)) THEN ReadNumber(t, i)
    ELSE ReadSymbol(t, i)

RECURSIVE ReadExpr(_, _)
RECURSIVE ReadCalls(_, _)
RECURSIVE ReadElems(_, _, _)
\* The elements after an opening bracket, to the closing one.
ReadElems(t, i, acc) ==
    IF At(t, i) = "]" /\ acc = <<>> THEN Parsed(acc, i + 1)
    ELSE LET e == ReadExpr(t, i) IN
         IF ~e.ok THEN Failed
         ELSE IF At(t, e.next) = "]" THEN Parsed(Append(acc, e.val), e.next + 1)
         ELSE IF At(t, e.next) = "," /\ At(t, e.next + 1) = " "
         THEN ReadElems(t, e.next + 2, Append(acc, e.val))
         ELSE Failed

\* Every bracketed list that follows the head read so far.
ReadCalls(t, head) ==
    IF At(t, head.next) # "[" THEN head
    ELSE LET elems == ReadElems(t, head.next + 1, <<>>) IN
         IF ~elems.ok THEN Failed
         ELSE ReadCalls(t, Parsed(ExprKind_Normal(head.val, elems.val), elems.next))

ReadExpr(t, i) ==
    LET atom == ReadAtom(t, i) IN
    IF ~atom.ok THEN Failed ELSE ReadCalls(t, atom)

C17_UncheckedSplitSound ==
    /\ symV # None => Symbol_try_new(symV[1]) # None
    /\ ret.op = "Symbol::context" =>
          /\ Symbol_try_new(ret.arg) # None
          /\ ~ret.out.panic
          /\ ContextRef_try_new(ret.out.val) # None
    /\ ret.op = "Symbol::symbol_name" =>
          /\ Symbol_try_new(ret.arg) # None
          /\ ~ret.out.panic
          /\ SymbolNameRef_try_new(ret.out.val) # None
          /\ ret.out.val # <<>>
          /\ GravesOf(ret.out.val) = {}
    /\ split.context # None => ContextRef_try_new(split.context[1]) # None
    /\ split.name # None => SymbolNameRef_try_new(split.name[1]) # None

\* The context of a symbol with two context components has been taken, and
\* its name too.
C17_Witness ==
    /\ ret.op = "Symbol::context"
    /\ Cardinality(GravesOf(ret.out.val)) = 2
    /\ split.name # None
    /\ split.context # None

\* ------------------------------------------------------------------ C16

\* The places of the empty segments among those split returns.
EmptySegments(segs) == {k \in 1..Len(segs) : segs[k] = <<>>}

\* The segments that are not empty, in order.
RECURSIVE NonEmptySegments(_)
NonEmptySegments(segs) ==
    IF segs = <<>> THEN <<>>
    ELSE (IF Head(segs) = <<>> THEN <<>> ELSE <<Head(segs)>>)
         \o NonEmptySegments(Tail(segs))

\* The statement as made: the split of a validated context, and of a
\* validated relative context, has exactly one empty segment, the last, and
\* components() returns the segments before it, each a valid name, without
\* a panic.
C16_OneEmptySegment ==
    ret.op \in {"Context::components", "RelativeContext::components"} =>
        LET segs == str_split(ret.arg, 1, <<>>) IN
        /\ EmptySegments(segs) = {Len(segs)}
        /\ ~ret.out.panic
        /\ ret.out.val = SubSeq(segs, 1, Len(segs) - 1)
        /\ \A k \in 1..Len(ret.out.val) : IsValidName(ret.out.val[k])

\* C16: the split of a validated Context has exactly one empty segment, the
\* last; the split of a validated RelativeContext has exactly two, the first
\* and the last.  components() discards every empty segment and returns the
\* others in order, each a valid name, at least one, and does not panic.
C16_Components ==
    /\ ret.op = "Context::components" =>
          LET segs == str_split(ret.arg, 1, <<>>) IN
          /\ Context_try_new(ret.arg) # None
          /\ EmptySegments(segs) = {Len(segs)}
          /\ ~ret.out.panic
          /\ ret.out.val = SubSeq(segs, 1, Len(segs) - 1)
    /\ ret.op = "RelativeContext::components" =>
          LET segs == str_split(ret.arg, 1, <<>>) IN
          /\ RelativeContext_try_new(ret.arg) # None
          /\ EmptySegments(segs) = {1, Len(segs)}
          /\ Len(segs) >= 3
          /\ ~ret.out.panic
          /\ ret.out.val = SubSeq(segs, 2, Len(segs) - 1)
    /\ ret.op \in {"Context::components", "RelativeContext::components"} =>
          /\ ret.out.val = NonEmptySegments(str_split(ret.arg, 1, <<>>))
          /\ Len(ret.out.val) >= 1
          /\ \A k \in 1..Len(ret.out.val) : IsValidName(ret.out.val[k])

\* The components of a relative context of two components have been taken.
C16_Witness ==
    /\ ret.op = "RelativeContext::components"
    /\ ~ret.out.panic
    /\ Len(ret.out.val) = 2

\* ------------------------------------------------------------------ C11

\* The validation predicate of each type, as the grammar states it.
IsValidOwned(ty, t) ==
    CASE ty = "Symbol" -> IsValidSymbolText(t)
      [] ty = "SymbolName" -> IsValidName(t)
      [] ty = "Context" -> IsValidContextText(t)
      [] ty = "RelativeContext" -> IsValidRelativeContextText(t)
      [] OTHER -> FALSE

\* C11: the owned value held, whichever safe operation made it (try_new,
\* new, join, from_symbol_name, global, system, to_symbol, to_symbol_name,
\* to_context, Expr::null, clone), holds a text that the try_new of its own
\* type accepts, and that the grammar of its type allows; so every text
\* unchecked_new wrapped was valid.
C11_ValidityInvariant ==
    own.ty # "none" =>
        /\ TryNewOf(own.ty, own.text) = Some(own.text)
        /\ IsValidOwned(own.ty, own.text)

\* A context taken from a symbol of two context components is held: it was
\* wrapped by unchecked_new, unvalidated.
C11_Witness ==
    /\ own.ty = "Context"
    /\ own.by = "to_context"
    /\ Cardinality(GravesOf(own.text)) = 2

\* ------------------------------------------------------------------ C12

\* The head of the head of ... of e that is not a Normal.
RECURSIVE InnermostHead(_)
InnermostHead(e) == IF e.tag = "Normal" THEN InnermostHead(e.head[1]) ELSE e

\* C12: tag() returns the symbol of a symbol expression, nothing for an
\* integer, a real or a string, and for a normal expression what tag()
\* returns on its head: the innermost head when that is a symbol, nothing
\* when it is not, whatever the elements are.
C12_Tag ==
    tagged # None =>
        /\ expr.tag = "Symbol" => tagged[1] = Some(expr.str)
        /\ expr.tag \in {"Integer", "Real", "String"} => tagged[1] = None
        /\ expr.tag = "Normal" =>
              /\ tagged[1] = tag(expr.head[1])
              /\ InnermostHead(expr).tag = "Symbol" =>
                    tagged[1] = Some(InnermostHead(expr).str)
              /\ InnermostHead(expr).tag # "Symbol" => tagged[1] = None

\* tag() has returned the symbol g of an expression g[][y], y not a symbol.
C12_Witness ==
    /\ tagged # None
    /\ tagged[1] # None
    /\ expr.tag = "Normal"
    /\ expr.head[1].tag = "Normal"
    /\ Len(expr.contents) = 1
    /\ expr.contents[1].tag # "Symbol"

\* ------------------------------------------------------------------ C14

\* The texts joined in order, sep between each two of them.
RECURSIVE JoinWith(_, _)
JoinWith(texts, sep) ==
    IF texts = <<>> THEN <<>>
    ELSE IF Len(texts) = 1 THEN texts[1]
    ELSE texts[1] \o sep \o JoinWith(Tail(texts), sep)

\* C14: the text of a normal expression is the text of its head, an opening
\* bracket, the texts of its elements in order with ", " between each two
\* and nothing after the last, and a closing bracket; with no element it is
\* the text of the head and "[]"; the List of 1, 2, 3 reads
\* System`List[1, 2, 3].
C14_NormalDisplay ==
    shown # None /\ expr.tag = "Normal" =>
        /\ shown[1] = Display(expr.head[1]) \o <<"[">>
                      \o JoinWith([k \in 1..Len(expr.contents) |->
                                       Display(expr.contents[k])], <<",", " ">>)
                      \o <<"]">>
        /\ expr.contents = <<>> => shown[1] = Display(expr.head[1]) \o <<"[", "]">>
        /\ expr = ListOf123 =>
              shown[1] = <<"S", "y", "s", "t", "e", "m", Grave, "L", "i", "s", "t",
                           "[", "1", ",", " ", "2", ",", " ", "3", "]">>

\* The List of 1, 2, 3 has been displayed.
C14_Witness ==
    /\ shown # None
    /\ expr = ListOf123

\* ------------------------------------------------------------- C13

\* The bindings that hold an Expr.
LiveHandles == {i \in Handle : h[i] # 0}

\* Any two live handles compare equal, either way round, exactly when the
\* trees read through them are identical, and give the Hasher the same
\* writes exactly then.
EqualIffIdentical ==
    /\ \A i \in LiveHandles : Expr_eq(heap, h[i], h[i])
    /\ \A i, j \in LiveHandles :
          i < j =>
             LET same == View(heap, h[i]) = View(heap, h[j]) IN
             /\ Expr_eq(heap, h[i], h[j]) <=> same
             /\ Expr_eq(heap, h[j], h[i]) <=> same
             /\ Expr_hash(heap, h[i]) = Expr_hash(heap, h[j]) <=> same

PointingAt(addrs, a) == {k \in 1..Len(addrs) : addrs[k] = a}

\* The live Exprs that point at allocation a: the bindings, the heads and
\* elements of the live Normal expressions, and those of an ExprKind the
\* caller owns.
HolderCount(a) ==
    Cardinality({i \in Handle : h[i] = a})
    + Cardinality(UNION {{<<b, k>> : k \in PointingAt(Children(heap[b].kind), a)} :
                            b \in {c \in Addr : heap[c].live}})
    + (IF taken = None THEN 0
       ELSE Cardinality(PointingAt(Children(taken[1]), a)))

\* C15: reference-count lifecycle.  In every state reached by constructors,
\* clone, drop, kind_mut and to_kind, ref_count() of every live handle is the
\* number of live Exprs pointing at its allocation and is at least 1; an
\* allocation is live exactly while some Expr points at it, so it is freed
\* when its last holder lets go and not before; and every Expr, bound or held
\* inside an ExprKind, points at a live allocation.
C15_RefCountLifecycle ==
    /\ \A i \in LiveHandles : heap[h[i]].live
    /\ \A a \in Addr :
          LET n == HolderCount(a) IN
          /\ \A i \in LiveHandles :
                h[i] = a => ref_count(heap, h[i]) = n /\ ref_count(heap, h[i]) >= 1
          /\ heap[a].live <=> n >= 1
          /\ heap[a].live => heap[a].strong = n
          /\ heap[a].live =>
                \A k \in 1..Len(Children(heap[a].kind)) :
                    heap[Children(heap[a].kind)[k]].live

\* A binding is the only one on an allocation that is also the head of a
\* live Normal expression, and reads a count of 2; the other binding holds
\* that Normal expression alone.
C15_Witness ==
    \E i, j \in LiveHandles :
       /\ Peers(i) = {}
       /\ ref_count(heap, h[i]) = 2
       /\ heap[h[j]].kind.tag = "Normal"
       /\ heap[h[j]].kind.head = h[i]
       /\ ref_count(heap, h[j]) = 1

====
